---------------------------- MODULE Spec2Model ----------------------------
(***************************************************************************)
(* Model of the download-session orchestration of torrent_downloader.py:   *)
(* the control channel (aria2_call), the job submitter (add_torrent_file), *)
(* the selection applier (apply_file_selection, get_torrent_files) and the *)
(* session monitor (monitor_download), driving an external engine.         *)
(*                                                                         *)
(* The program is sequential.  pc is its control location; an RPC made by  *)
(* a procedure runs as the sub-machine `call` (one step per HTTP attempt   *)
(* and per backoff sleep) while the caller waits at its pc.  `now` is the  *)
(* wall clock in seconds: it advances by the sleeps of the code and by the *)
(* time an HTTP attempt takes.  The engine is the environment: its job     *)
(* status and metadata change on their own between any two program steps.  *)
(***************************************************************************)
EXTENDS Integers, Sequences, FiniteSets

(* ------------------------------ bounds --------------------------------- *)
\* The timeout argument of monitor_download (600 in download_item), scaled.
Timeout == 6
\* The timeout argument of get_torrent_files (default 15), scaled.
FilesTimeout == 2
\* Longest time one HTTP attempt takes (the code allows 15 s), scaled.
MaxWait == 1
\* Largest number of files of a job.
MaxFiles == 2
\* download_item's timeout for the monitor (600 s in the code), in the model's seconds.
ItemTimeout == 3

(* ------------------------- program constants --------------------------- *)
Retries == 3
BackoffSleep == 1
PollSleep == 2
FilesPollSleep == 1
ProgressEvery == 5
\* start_aria2_rpc: `for i in range(30)`
ProbeAttempts == 30
\* start_aria2_rpc: `time.sleep(1)` after a probe that raised
ProbeSleep == 1
\* start_aria2_rpc: `time.sleep(2)` after pkill
StartSleep == 2

VARIABLES
    now,            \* time.time()
    pc,             \* control location of the program
    call,           \* the aria2_call in progress (or the last one)
    remote,         \* engine: status of the job ("none": no job)
    filesKnown,     \* engine: the job's metadata (file list) is populated
    jobFiles,       \* engine: the job's file entries, jobFiles[i+1] the path of index i (0: no path)
    sel,            \* engine: the indices selected for download
    disk,           \* the paths that exist on disk
    gid,            \* the job handle held by the program (0: None)
    timeout,        \* monitor_download: timeout argument
    start_time,     \* monitor_download: start_time
    last_update,    \* monitor_download: last_update
    status,         \* monitor_download: the last result["result"] read
    outcome,        \* monitor_download: how the session ended ("none": running)
    downloaded,     \* monitor_download: the returned list
    queries,        \* monitor_download: status queries issued so far
    polls_failed,   \* monitor_download: some status query returned no result
    selected_files, \* add_torrent_file / apply_file_selection: the selection argument
    files_start,    \* get_torrent_files: start_time
    files,          \* apply_file_selection: the list get_torrent_files returned
    idx,            \* apply_file_selection: loop index i
    rounds,         \* executions of apply_file_selection started so far
    sel_before,     \* engine selection when the current apply_file_selection started
    sel_ok,         \* indices whose select-file call succeeded in the current execution
    pause_sent,     \* the "pause" option of the addTorrent call made ("unset": none made)
    issued,         \* apply_file_selection: the select-file (index) and unpause (-1) calls issued by the current execution
    reports,        \* monitor_download: progress reports printed so far
    artifacts,      \* process_downloaded_files: the files argument
    video,          \* the paths with a video extension (.mkv, .mp4, .avi, .mov)
    output,         \* the file names present in OUTPUT_DIR
    staged,         \* the subtitle files present beside the downloads
    p_i,            \* process_downloaded_files: position of file_path in files
    lang_i,         \* extract_subtitles: position of lang in languages
    sub_i,          \* process_downloaded_files: position of sub in subtitles
    extracted,      \* extract_subtitles: the list extracted
    tried,          \* extract_subtitles: the stream selectors ffmpeg was run with so far
    runs,           \* executions of process_downloaded_files started so far
    item,           \* download_item: the kind of its item argument (torrent file, magnet link, anything else)
    returned,       \* download_item: the value it returned ("none" while it runs)
    proc_calls,     \* calls of process_downloaded_files made by download_item
    probe_i,        \* start_aria2_rpc: probes made so far (the loop variable i)
    probe_slept,    \* whether start_aria2_rpc has slept since its last probe
    started,        \* what start_aria2_rpc returned ("none" before it returns)
    in_select,      \* whether get_torrent_selection is running
    asked,          \* whether main has been asked for a download
    selected,       \* get_torrent_selection: the list it is about to return
    tmp_gid,        \* the handle get_torrent_selection got for its temporary job (0: none)
    removes         \* aria2.remove calls issued for the temporary job

vars == <<now, pc, call, remote, filesKnown, jobFiles, sel, disk, gid, timeout,
          start_time, last_update, status, outcome, downloaded, queries,
          polls_failed, selected_files, files_start, files, idx, rounds, sel_before, sel_ok,
          pause_sent,
          issued,
          reports,
          artifacts, video, output, staged, p_i, lang_i, sub_i, extracted, tried, runs,
          item, returned, proc_calls,
          probe_i, probe_slept, started, in_select, asked, selected,
          tmp_gid, removes>>

engineVars == <<remote, filesKnown, jobFiles, sel, disk>>
monitorVars == <<timeout, start_time, last_update, status, outcome, downloaded,
                 queries, polls_failed>>
submitVars == <<gid, selected_files, files_start, files, idx, rounds, sel_before, sel_ok, pause_sent>>
procVars == <<artifacts, video, output, staged, p_i, lang_i, sub_i, extracted, tried, runs>>
itemVars == <<item, returned, proc_calls>>
mainVars == <<probe_i, probe_slept, started, in_select, asked, selected>>
selectTrace == <<tmp_gid, removes>>
monitorTrace == <<reports>>
applyTrace == <<issued>>

(* ------------------------------ values --------------------------------- *)
\* Python's None, as a call result and as an absent argument.
None == [kind |-> "none"]
\* A JSON-RPC response envelope without a "result" member.
ErrorEnvelope == [kind |-> "error"]

\* The selected_files argument: absent (None), or a list, of which only membership and
\* emptiness are used.
NoSelection == [given |-> FALSE, items |-> {}]

NoCall == [st |-> "idle", method |-> "", arg |-> None, attempt |-> 0,
           made |-> 0, slept |-> 0, served |-> None, result |-> None]

Statuses == {"active", "paused", "complete", "error", "removed"}
Terminal == {"complete", "error", "removed"}

\* The file lists a job of n files can have: entry i+1 carries its own path (i+1) or none (0).
FileLists(n) == {f \in [1..n -> 0..n] : \A i \in 1..n : f[i] \in {0, i}}

(* ------------------------- the external engine ------------------------- *)
\* What the engine answers to a request it serves, as the JSON the channel returns.
EngineResponse(method) ==
    CASE method = "tellStatus" ->
            [kind |-> "result", status |-> remote,
             total |-> IF filesKnown /\ Len(jobFiles) > 0 THEN 1 ELSE 0,
             files |-> IF filesKnown THEN jobFiles ELSE <<>>]
      [] method = "addTorrent" -> [kind |-> "result", gid |-> 1]
      [] method = "addUri" -> [kind |-> "result", gid |-> 1]
      [] OTHER -> [kind |-> "result"]

\* What serving a request does to the engine.  A job added by addTorrent starts paused
\* or active as its "pause" option says, with every file selected; select-file sets one
\* index; unpause releases a paused job.  A job added by addUri for a magnet link starts
\* active; with "follow-torrent": "mem" it is the download of the metadata, which writes
\* none of the files it lists, unless the engine already holds the metadata.  remove
\* stops a job that has not stopped yet.
EngineEffect(method, arg) ==
    CASE method = "addTorrent" ->
            /\ remote' = IF arg.pause = "true" THEN "paused" ELSE "active"
            /\ sel' = 0..(Len(jobFiles) - 1)
            /\ UNCHANGED <<filesKnown, jobFiles, disk>>
      [] method = "addUri" ->
            /\ remote' = "active"
            /\ sel' \in {{}, 0..(Len(jobFiles) - 1)}
            /\ UNCHANGED <<filesKnown, jobFiles, disk>>
      [] method = "selectFile" ->
            /\ sel' = IF arg.select THEN sel \cup {arg.index} ELSE sel \ {arg.index}
            /\ UNCHANGED <<remote, filesKnown, jobFiles, disk>>
      [] method = "remove" ->
            /\ remote' = IF remote \in {"active", "paused"} THEN "removed" ELSE remote
            /\ UNCHANGED <<filesKnown, jobFiles, sel, disk>>
      [] method = "unpause" ->
            /\ remote' = IF remote = "paused" THEN "active" ELSE remote
            /\ UNCHANGED <<filesKnown, jobFiles, sel, disk>>
      [] OTHER -> UNCHANGED engineVars

\* The job moves on by itself: a running job completes, fails or is removed (an external
\* cancel); a paused job can only be removed.  A stopped job keeps its status.
EngineStep ==
    /\ remote \in {"active", "paused"}
    /\ \E s \in Terminal :
          /\ (remote = "paused" => s = "removed")
          /\ remote' = s
    /\ UNCHANGED <<now, pc, call, filesKnown, jobFiles, sel, disk>>
    /\ UNCHANGED monitorVars
    /\ UNCHANGED submitVars
    /\ UNCHANGED applyTrace
    /\ UNCHANGED monitorTrace
    /\ UNCHANGED procVars
    /\ UNCHANGED itemVars
    /\ UNCHANGED mainVars
    /\ UNCHANGED selectTrace

\* The job's metadata (its file list) becomes available.
EngineMetadata ==
    /\ remote # "none"
    /\ ~filesKnown
    /\ filesKnown' = TRUE
    /\ UNCHANGED <<now, pc, call, remote, jobFiles, sel, disk>>
    /\ UNCHANGED monitorVars
    /\ UNCHANGED submitVars
    /\ UNCHANGED applyTrace
    /\ UNCHANGED monitorTrace
    /\ UNCHANGED procVars
    /\ UNCHANGED itemVars
    /\ UNCHANGED mainVars
    /\ UNCHANGED selectTrace

(* ------------------------ aria2_call (143-166) ------------------------- *)
\* A fresh call: the loop `for attempt in range(retries)` is about to make attempt 0.
NewCall(method, arg) ==
    [st |-> IF Retries > 0 THEN "try" ELSE "done", method |-> method, arg |-> arg,
     attempt |-> 0, made |-> 0, slept |-> 0, served |-> None, result |-> None]

\* Faulty variant: the last attempt is taken to be the one after the loop's last.
IsLastAttempt_OffByOne(attempt) == attempt = Retries

\* `attempt == retries - 1`
IsLastAttempt(attempt) == attempt = Retries - 1

\* Faulty variant: the response is not returned and the loop goes on as after a failure.
AfterSuccess_NoReturn(c, response) ==
    [c EXCEPT !.st = IF c.attempt = Retries - 1 THEN "done" ELSE "backoff",
              !.result = None]

\* Where the call goes when an attempt got a 2xx response: `return response.json()`.
AfterSuccess(c, response) == [c EXCEPT !.st = "done", !.result = response]

\* An attempt is served by the engine and answered 2xx within the wait: the call
\* returns the decoded response.
CallAttemptOk ==
    /\ call.st = "try"
    /\ \E d \in 0..MaxWait : now' = now + d
    /\ LET response == EngineResponse(call.method)
           c == [call EXCEPT !.made = @ + 1,
                             !.served = IF @ = None THEN response ELSE @]
       IN call' = AfterSuccess(c, response)
    /\ EngineEffect(call.method, call.arg)
    /\ UNCHANGED pc
    /\ UNCHANGED monitorVars
    /\ UNCHANGED submitVars
    /\ UNCHANGED applyTrace
    /\ UNCHANGED monitorTrace
    /\ UNCHANGED procVars
    /\ UNCHANGED itemVars
    /\ UNCHANGED mainVars
    /\ UNCHANGED selectTrace

\* An attempt is answered 2xx with a JSON-RPC envelope that has no "result" member.
CallAttemptNoResult ==
    /\ call.st = "try"
    /\ \E d \in 0..MaxWait : now' = now + d
    /\ LET c == [call EXCEPT !.made = @ + 1,
                             !.served = IF @ = None THEN ErrorEnvelope ELSE @]
       IN call' = AfterSuccess(c, ErrorEnvelope)
    /\ UNCHANGED pc
    /\ UNCHANGED engineVars
    /\ UNCHANGED monitorVars
    /\ UNCHANGED submitVars
    /\ UNCHANGED applyTrace
    /\ UNCHANGED monitorTrace
    /\ UNCHANGED procVars
    /\ UNCHANGED itemVars
    /\ UNCHANGED mainVars
    /\ UNCHANGED selectTrace

\* An attempt fails (transport failure, wait exceeded, non-2xx): the last one returns
\* None, any other one is followed by the backoff sleep.
CallAttemptFail ==
    /\ call.st = "try"
    /\ \E d \in 0..MaxWait : now' = now + d
    /\ call' = [call EXCEPT !.made = @ + 1,
                            !.st = IF IsLastAttempt(call.attempt) THEN "done" ELSE "backoff",
                            !.result = None]
    /\ UNCHANGED pc
    /\ UNCHANGED engineVars
    /\ UNCHANGED monitorVars
    /\ UNCHANGED submitVars
    /\ UNCHANGED applyTrace
    /\ UNCHANGED monitorTrace
    /\ UNCHANGED procVars
    /\ UNCHANGED itemVars
    /\ UNCHANGED mainVars
    /\ UNCHANGED selectTrace

\* `time.sleep(1)`, then the next iteration of the loop (or, the range exhausted, the
\* final `return None`).
CallBackoff ==
    /\ call.st = "backoff"
    /\ now' = now + BackoffSleep
    /\ call' = [call EXCEPT !.slept = @ + 1,
                            !.attempt = @ + 1,
                            !.st = IF call.attempt + 1 < Retries THEN "try" ELSE "done"]
    /\ UNCHANGED pc
    /\ UNCHANGED engineVars
    /\ UNCHANGED monitorVars
    /\ UNCHANGED submitVars
    /\ UNCHANGED applyTrace
    /\ UNCHANGED monitorTrace
    /\ UNCHANGED procVars
    /\ UNCHANGED itemVars
    /\ UNCHANGED mainVars
    /\ UNCHANGED selectTrace

CallStep == CallAttemptOk \/ CallAttemptNoResult \/ CallAttemptFail \/ CallBackoff

(* --------------------- monitor_download (245-293) ---------------------- *)
\* `while time.time() - start_time < timeout`
LoopRunning(elapsed, limit) == elapsed < limit

\* `not result or "result" not in result`
QueryFailed(result) == result = None \/ result.kind # "result"

\* Faulty variant: `removed` is not taken for a failure.
IsFailure_ErrorOnly(state) == state = "error"

\* `state in ("error", "removed")`
IsFailure(state) == state \in {"error", "removed"}

\* Faulty variant: the paths are collected without looking at the disk.
Downloaded_NoExists(fs) == SelectSeq(fs, LAMBDA path : path # 0)

\* The paths of the entries with a path that exists on disk, in the reported order.
Downloaded(fs) == SelectSeq(fs, LAMBDA path : path # 0 /\ path \in disk)

\* Faulty variant: the time of the last report is not looked at.
Reported_EveryPoll(st) == st.total > 0

\* `time.time() - last_update >= 5 and total > 0`: a progress report is printed.
Reported(st) == now - last_update >= ProgressEvery /\ st.total > 0

\* last_update after the progress block: it is reset when a report is printed.
ProgressUpdate(st) == IF Reported(st) THEN now ELSE last_update

\* `start_time = time.time(); last_update = start_time`
MonitorStart ==
    /\ pc = "monitor"
    /\ start_time' = now
    /\ last_update' = now
    /\ pc' = "mon_loop"
    /\ UNCHANGED <<now, call, timeout, status, outcome, downloaded, queries, polls_failed>>
    /\ UNCHANGED engineVars
    /\ UNCHANGED submitVars
    /\ UNCHANGED applyTrace
    /\ UNCHANGED monitorTrace
    /\ UNCHANGED procVars
    /\ UNCHANGED itemVars
    /\ UNCHANGED mainVars
    /\ UNCHANGED selectTrace

\* The loop condition holds: the status query is issued.
MonitorQuery ==
    /\ pc = "mon_loop"
    /\ LoopRunning(now - start_time, timeout)
    /\ call' = NewCall("tellStatus", [gid |-> gid])
    /\ queries' = queries + 1
    /\ pc' = "mon_query"
    /\ UNCHANGED <<now, timeout, start_time, last_update, status, outcome, downloaded,
                   polls_failed>>
    /\ UNCHANGED engineVars
    /\ UNCHANGED submitVars
    /\ UNCHANGED applyTrace
    /\ UNCHANGED monitorTrace
    /\ UNCHANGED procVars
    /\ UNCHANGED itemVars
    /\ UNCHANGED mainVars
    /\ UNCHANGED selectTrace

\* The loop condition fails: "Timeout", `return []`.
MonitorTimeout ==
    /\ pc = "mon_loop"
    /\ ~LoopRunning(now - start_time, timeout)
    /\ outcome' = "TimedOut"
    /\ downloaded' = <<>>
    /\ pc' = "mon_done"
    /\ UNCHANGED <<now, call, timeout, start_time, last_update, status, queries,
                   polls_failed>>
    /\ UNCHANGED engineVars
    /\ UNCHANGED submitVars
    /\ UNCHANGED applyTrace
    /\ UNCHANGED monitorTrace
    /\ UNCHANGED procVars
    /\ UNCHANGED itemVars
    /\ UNCHANGED mainVars
    /\ UNCHANGED selectTrace

\* Faulty variant: a query without result ends the session as failed.
MonitorQueryFailed_Fatal ==
    /\ pc = "mon_query"
    /\ call.st = "done"
    /\ call' = NoCall
    /\ QueryFailed(call.result)
    /\ polls_failed' = TRUE
    /\ outcome' = "Failed"
    /\ downloaded' = <<>>
    /\ pc' = "mon_done"
    /\ UNCHANGED <<now, timeout, start_time, last_update, status, queries>>
    /\ UNCHANGED engineVars
    /\ UNCHANGED submitVars
    /\ UNCHANGED applyTrace
    /\ UNCHANGED monitorTrace
    /\ UNCHANGED procVars
    /\ UNCHANGED itemVars
    /\ UNCHANGED mainVars
    /\ UNCHANGED selectTrace

\* The query returned no result: `time.sleep(2); continue`.
MonitorQueryFailed ==
    /\ pc = "mon_query"
    /\ call.st = "done"
    /\ call' = NoCall
    /\ QueryFailed(call.result)
    /\ now' = now + PollSleep
    /\ polls_failed' = TRUE
    /\ pc' = "mon_loop"
    /\ UNCHANGED <<timeout, start_time, last_update, status, outcome, downloaded,
                   queries>>
    /\ UNCHANGED engineVars
    /\ UNCHANGED submitVars
    /\ UNCHANGED applyTrace
    /\ UNCHANGED monitorTrace
    /\ UNCHANGED procVars
    /\ UNCHANGED itemVars
    /\ UNCHANGED mainVars
    /\ UNCHANGED selectTrace

\* Faulty variant: the collected paths are not returned and the loop goes on.
MonitorComplete_NoReturn ==
    /\ pc = "mon_query"
    /\ call.st = "done"
    /\ call' = NoCall
    /\ ~QueryFailed(call.result)
    /\ status' = call.result
    /\ last_update' = ProgressUpdate(call.result)
    /\ call.result.status = "complete"
    /\ downloaded' = Downloaded(call.result.files)
    /\ outcome' = "Completed"
    /\ now' = now + PollSleep
    /\ pc' = "mon_loop"
    /\ UNCHANGED <<timeout, start_time, queries, polls_failed>>
    /\ UNCHANGED engineVars
    /\ UNCHANGED submitVars
    /\ UNCHANGED applyTrace
    /\ reports' = IF Reported(call.result) THEN reports + 1 ELSE reports
    /\ UNCHANGED procVars
    /\ UNCHANGED itemVars
    /\ UNCHANGED mainVars
    /\ UNCHANGED selectTrace

\* The status read is `complete`: the existing paths are collected and returned.
MonitorComplete ==
    /\ pc = "mon_query"
    /\ call.st = "done"
    /\ call' = NoCall
    /\ ~QueryFailed(call.result)
    /\ status' = call.result
    /\ last_update' = ProgressUpdate(call.result)
    /\ call.result.status = "complete"
    /\ downloaded' = Downloaded(call.result.files)
    /\ outcome' = "Completed"
    /\ pc' = "mon_done"
    /\ UNCHANGED <<now, timeout, start_time, queries, polls_failed>>
    /\ UNCHANGED engineVars
    /\ UNCHANGED submitVars
    /\ UNCHANGED applyTrace
    /\ reports' = IF Reported(call.result) THEN reports + 1 ELSE reports
    /\ UNCHANGED procVars
    /\ UNCHANGED itemVars
    /\ UNCHANGED mainVars
    /\ UNCHANGED selectTrace

\* The status read is `error` or `removed`: "Download failed", `return []`.
MonitorFailed ==
    /\ pc = "mon_query"
    /\ call.st = "done"
    /\ call' = NoCall
    /\ ~QueryFailed(call.result)
    /\ status' = call.result
    /\ last_update' = ProgressUpdate(call.result)
    /\ call.result.status # "complete"
    /\ IsFailure(call.result.status)
    /\ outcome' = "Failed"
    /\ downloaded' = <<>>
    /\ pc' = "mon_done"
    /\ UNCHANGED <<now, timeout, start_time, queries, polls_failed>>
    /\ UNCHANGED engineVars
    /\ UNCHANGED submitVars
    /\ UNCHANGED applyTrace
    /\ reports' = IF Reported(call.result) THEN reports + 1 ELSE reports
    /\ UNCHANGED procVars
    /\ UNCHANGED itemVars
    /\ UNCHANGED mainVars
    /\ UNCHANGED selectTrace

\* Faulty variant: the timeout is counted from the last status read that showed the job
\* still running, not from the start of the session.
MonitorContinue_ResetsStart ==
    /\ pc = "mon_query"
    /\ call.st = "done"
    /\ call' = NoCall
    /\ ~QueryFailed(call.result)
    /\ status' = call.result
    /\ last_update' = ProgressUpdate(call.result)
    /\ call.result.status # "complete"
    /\ ~IsFailure(call.result.status)
    /\ now' = now + PollSleep
    /\ start_time' = now + PollSleep
    /\ pc' = "mon_loop"
    /\ UNCHANGED <<timeout, outcome, downloaded, queries, polls_failed>>
    /\ UNCHANGED engineVars
    /\ UNCHANGED submitVars
    /\ UNCHANGED applyTrace
    /\ reports' = IF Reported(call.result) THEN reports + 1 ELSE reports
    /\ UNCHANGED procVars
    /\ UNCHANGED itemVars
    /\ UNCHANGED mainVars
    /\ UNCHANGED selectTrace

\* Any other status: `time.sleep(2)` and the next iteration.
MonitorContinue ==
    /\ pc = "mon_query"
    /\ call.st = "done"
    /\ call' = NoCall
    /\ ~QueryFailed(call.result)
    /\ status' = call.result
    /\ last_update' = ProgressUpdate(call.result)
    /\ call.result.status # "complete"
    /\ ~IsFailure(call.result.status)
    /\ now' = now + PollSleep
    /\ pc' = "mon_loop"
    /\ UNCHANGED <<timeout, start_time, outcome, downloaded, queries, polls_failed>>
    /\ UNCHANGED engineVars
    /\ UNCHANGED submitVars
    /\ UNCHANGED applyTrace
    /\ reports' = IF Reported(call.result) THEN reports + 1 ELSE reports
    /\ UNCHANGED procVars
    /\ UNCHANGED itemVars
    /\ UNCHANGED mainVars
    /\ UNCHANGED selectTrace

MonitorStep ==
    \/ MonitorStart
    \/ MonitorQuery
    \/ MonitorTimeout
    \/ MonitorQueryFailed
    \/ MonitorComplete
    \/ MonitorFailed
    \/ MonitorContinue

(* ---------------------- add_torrent_file (191-212) -------------------- *)
\* Faulty variant: an empty selection counts as a selection.
Truthy_NotNone(selection) == selection.given

\* Python's truth value of the selected_files argument (None or a list).
Truthy(selection) == selection.given /\ selection.items # {}

\* `open(torrent_path, "rb")` raises: the except clause returns None.
AddReadFails ==
    /\ pc = "add"
    /\ gid' = 0
    /\ pc' = "add_done"
    /\ UNCHANGED <<now, call, selected_files, files_start, files, idx, rounds, sel_before,
                   sel_ok, pause_sent>>
    /\ UNCHANGED engineVars
    /\ UNCHANGED monitorVars
    /\ UNCHANGED applyTrace
    /\ UNCHANGED monitorTrace
    /\ UNCHANGED procVars
    /\ UNCHANGED itemVars
    /\ UNCHANGED mainVars
    /\ UNCHANGED selectTrace

\* Faulty variant: the job is never submitted paused.
AddSubmit_NeverPaused ==
    /\ pc = "add"
    /\ call' = NewCall("addTorrent", [pause |-> "false"])
    /\ pause_sent' = "false"
    /\ pc' = "add_call"
    /\ UNCHANGED <<now, gid, selected_files, files_start, files, idx, rounds, sel_before,
                   sel_ok>>
    /\ UNCHANGED engineVars
    /\ UNCHANGED monitorVars
    /\ UNCHANGED applyTrace
    /\ UNCHANGED monitorTrace
    /\ UNCHANGED procVars
    /\ UNCHANGED itemVars
    /\ UNCHANGED mainVars
    /\ UNCHANGED selectTrace

\* The descriptor is read and submitted: aria2.addTorrent with the "pause" option.
AddSubmit ==
    /\ pc = "add"
    /\ LET pause == IF Truthy(selected_files) THEN "true" ELSE "false"
       IN /\ call' = NewCall("addTorrent", [pause |-> pause])
          /\ pause_sent' = pause
    /\ pc' = "add_call"
    /\ UNCHANGED <<now, gid, selected_files, files_start, files, idx, rounds, sel_before,
                   sel_ok>>
    /\ UNCHANGED engineVars
    /\ UNCHANGED monitorVars
    /\ UNCHANGED applyTrace
    /\ UNCHANGED monitorTrace
    /\ UNCHANGED procVars
    /\ UNCHANGED itemVars
    /\ UNCHANGED mainVars
    /\ UNCHANGED selectTrace

\* `gid = result.get("result") if result else None`
GidOf(result) == IF result.kind = "result" THEN result.gid ELSE 0

\* `if gid and selected_files`: apply_file_selection is entered, and in it
\* get_torrent_files, which takes its start_time.
AddResultApply ==
    /\ pc = "add_call"
    /\ call.st = "done"
    /\ call' = NoCall
    /\ gid' = GidOf(call.result)
    /\ GidOf(call.result) # 0 /\ Truthy(selected_files)
    /\ rounds' = rounds + 1
    /\ sel_before' = sel
    /\ sel_ok' = {}
    /\ idx' = 0
    /\ files' = <<>>
    /\ files_start' = now
    /\ pc' = "gtf_loop"
    /\ UNCHANGED <<now, selected_files, pause_sent>>
    /\ UNCHANGED engineVars
    /\ UNCHANGED monitorVars
    /\ issued' = <<>>
    /\ UNCHANGED monitorTrace
    /\ UNCHANGED procVars
    /\ UNCHANGED itemVars
    /\ UNCHANGED mainVars
    /\ UNCHANGED selectTrace

\* No handle or no selection: `return gid`.
AddResultReturn ==
    /\ pc = "add_call"
    /\ call.st = "done"
    /\ call' = NoCall
    /\ gid' = GidOf(call.result)
    /\ ~(GidOf(call.result) # 0 /\ Truthy(selected_files))
    /\ pc' = "add_done"
    /\ UNCHANGED <<now, selected_files, files_start, files, idx, rounds, sel_before,
                   sel_ok, pause_sent>>
    /\ UNCHANGED engineVars
    /\ UNCHANGED monitorVars
    /\ UNCHANGED applyTrace
    /\ UNCHANGED monitorTrace
    /\ UNCHANGED procVars
    /\ UNCHANGED itemVars
    /\ UNCHANGED mainVars
    /\ UNCHANGED selectTrace

(* --------------------- get_torrent_files (233-243) --------------------- *)
\* `while time.time() - start_time < timeout`: the file list is asked for.
FilesQuery ==
    /\ pc = "gtf_loop"
    /\ now - files_start < FilesTimeout
    /\ call' = NewCall("tellStatus", [gid |-> gid])
    /\ pc' = "gtf_query"
    /\ UNCHANGED now
    /\ UNCHANGED submitVars
    /\ UNCHANGED engineVars
    /\ UNCHANGED monitorVars
    /\ UNCHANGED applyTrace
    /\ UNCHANGED monitorTrace
    /\ UNCHANGED procVars
    /\ UNCHANGED itemVars
    /\ UNCHANGED mainVars
    /\ UNCHANGED selectTrace

\* The wait is over: `return []`.
FilesTimedOut ==
    /\ pc = "gtf_loop"
    /\ ~(now - files_start < FilesTimeout)
    /\ files' = <<>>
    /\ pc' = "apply_files"
    /\ UNCHANGED <<now, call, gid, selected_files, files_start, idx, rounds, sel_before,
                   sel_ok, pause_sent>>
    /\ UNCHANGED engineVars
    /\ UNCHANGED monitorVars
    /\ UNCHANGED applyTrace
    /\ UNCHANGED monitorTrace
    /\ UNCHANGED procVars
    /\ UNCHANGED itemVars
    /\ UNCHANGED mainVars
    /\ UNCHANGED selectTrace

\* `result and "result" in result` and a non-empty "files"
HasFiles(result) == result.kind = "result" /\ result.files # <<>>

\* The answer carries a non-empty file list: `return files`.
FilesReturned ==
    /\ pc = "gtf_query"
    /\ call.st = "done"
    /\ call' = NoCall
    /\ HasFiles(call.result)
    /\ files' = call.result.files
    /\ pc' = "apply_files"
    /\ UNCHANGED <<now, gid, selected_files, files_start, idx, rounds, sel_before,
                   sel_ok, pause_sent>>
    /\ UNCHANGED engineVars
    /\ UNCHANGED monitorVars
    /\ UNCHANGED applyTrace
    /\ UNCHANGED monitorTrace
    /\ UNCHANGED procVars
    /\ UNCHANGED itemVars
    /\ UNCHANGED mainVars
    /\ UNCHANGED selectTrace

\* No answer or no file list yet: `time.sleep(1)` and the next iteration.
FilesRetry ==
    /\ pc = "gtf_query"
    /\ call.st = "done"
    /\ call' = NoCall
    /\ ~HasFiles(call.result)
    /\ now' = now + FilesPollSleep
    /\ pc' = "gtf_loop"
    /\ UNCHANGED submitVars
    /\ UNCHANGED engineVars
    /\ UNCHANGED monitorVars
    /\ UNCHANGED applyTrace
    /\ UNCHANGED monitorTrace
    /\ UNCHANGED procVars
    /\ UNCHANGED itemVars
    /\ UNCHANGED mainVars
    /\ UNCHANGED selectTrace

(* -------------------- apply_file_selection (214-231) ------------------- *)
\* Faulty variant: every index is marked selected.
SelectFlag_Always(i, selection) == TRUE

\* `select = (i in selected_files)`
SelectFlag(i, selection) == i \in selection.items

\* `if not files`: "downloading all", the job is unpaused with no selection made.
ApplyNoFiles ==
    /\ pc = "apply_files"
    /\ ~in_select
    /\ files = <<>>
    /\ call' = NewCall("unpause", [gid |-> gid])
    /\ pc' = "apply_unpause"
    /\ UNCHANGED now
    /\ UNCHANGED submitVars
    /\ UNCHANGED engineVars
    /\ UNCHANGED monitorVars
    /\ issued' = Append(issued, -1)
    /\ UNCHANGED monitorTrace
    /\ UNCHANGED procVars
    /\ UNCHANGED itemVars
    /\ UNCHANGED mainVars
    /\ UNCHANGED selectTrace

\* One iteration of `for i in range(len(files))`: aria2.selectFile for index i.
ApplySelect ==
    /\ pc = "apply_files"
    /\ ~in_select
    /\ files # <<>>
    /\ idx < Len(files)
    /\ call' = NewCall("selectFile",
                       [gid |-> gid, index |-> idx,
                        select |-> SelectFlag(idx, selected_files)])
    /\ pc' = "apply_select"
    /\ UNCHANGED now
    /\ UNCHANGED submitVars
    /\ UNCHANGED engineVars
    /\ UNCHANGED monitorVars
    /\ issued' = Append(issued, idx)
    /\ UNCHANGED monitorTrace
    /\ UNCHANGED procVars
    /\ UNCHANGED itemVars
    /\ UNCHANGED mainVars
    /\ UNCHANGED selectTrace

\* The select-file call returned (its result is not looked at): the next index.
ApplySelected ==
    /\ pc = "apply_select"
    /\ call.st = "done"
    /\ call' = NoCall
    /\ sel_ok' = IF call.result.kind = "result" THEN sel_ok \cup {idx} ELSE sel_ok
    /\ idx' = idx + 1
    /\ pc' = "apply_files"
    /\ UNCHANGED <<now, gid, selected_files, files_start, files, rounds, sel_before,
                   pause_sent>>
    /\ UNCHANGED engineVars
    /\ UNCHANGED monitorVars
    /\ UNCHANGED applyTrace
    /\ UNCHANGED monitorTrace
    /\ UNCHANGED procVars
    /\ UNCHANGED itemVars
    /\ UNCHANGED mainVars
    /\ UNCHANGED selectTrace

\* Faulty variant: the job is unpaused once the first selected index has been set.
ApplyUnpause_Early ==
    /\ pc = "apply_files"
    /\ files # <<>>
    /\ idx >= 1
    /\ call' = NewCall("unpause", [gid |-> gid])
    /\ pc' = "apply_unpause"
    /\ UNCHANGED now
    /\ UNCHANGED submitVars
    /\ UNCHANGED engineVars
    /\ UNCHANGED monitorVars
    /\ issued' = Append(issued, -1)
    /\ UNCHANGED monitorTrace
    /\ UNCHANGED procVars
    /\ UNCHANGED itemVars
    /\ UNCHANGED mainVars
    /\ UNCHANGED selectTrace

\* The loop is over: "Selected n files", the job is unpaused.
ApplyUnpause ==
    /\ pc = "apply_files"
    /\ files # <<>>
    /\ ~(idx < Len(files))
    /\ call' = NewCall("unpause", [gid |-> gid])
    /\ pc' = "apply_unpause"
    /\ UNCHANGED now
    /\ UNCHANGED submitVars
    /\ UNCHANGED engineVars
    /\ UNCHANGED monitorVars
    /\ issued' = Append(issued, -1)
    /\ UNCHANGED monitorTrace
    /\ UNCHANGED procVars
    /\ UNCHANGED itemVars
    /\ UNCHANGED mainVars
    /\ UNCHANGED selectTrace

\* The unpause call returned (its result is not looked at): apply_file_selection
\* returns, and add_torrent_file returns the handle.
ApplyReturn ==
    /\ pc = "apply_unpause"
    /\ call.st = "done"
    /\ call' = NoCall
    /\ pc' = "add_done"
    /\ UNCHANGED now
    /\ UNCHANGED submitVars
    /\ UNCHANGED engineVars
    /\ UNCHANGED monitorVars
    /\ UNCHANGED applyTrace
    /\ UNCHANGED monitorTrace
    /\ UNCHANGED procVars
    /\ UNCHANGED itemVars
    /\ UNCHANGED mainVars
    /\ UNCHANGED selectTrace

\* apply_file_selection is called once more, on the same handle with the same selection.
\* The procedure reads the clock only relative to the start_time it takes on entry, so
\* this second call is entered at time 0.
ApplyAgain ==
    /\ pc = "add_done"
    /\ rounds = 1
    /\ rounds' = rounds + 1
    /\ sel_before' = sel
    /\ sel_ok' = {}
    /\ idx' = 0
    /\ files' = <<>>
    /\ now' = 0
    /\ files_start' = 0
    /\ pc' = "gtf_loop"
    /\ UNCHANGED <<call, gid, selected_files, pause_sent>>
    /\ UNCHANGED engineVars
    /\ UNCHANGED monitorVars
    /\ issued' = <<>>
    /\ UNCHANGED monitorTrace
    /\ UNCHANGED procVars
    /\ UNCHANGED itemVars
    /\ UNCHANGED mainVars
    /\ UNCHANGED selectTrace

SubmitStep ==
    \/ AddReadFails
    \/ AddSubmit
    \/ AddResultApply
    \/ AddResultReturn
    \/ FilesQuery
    \/ FilesTimedOut
    \/ FilesReturned
    \/ FilesRetry
    \/ ApplyNoFiles
    \/ ApplySelect
    \/ ApplySelected
    \/ ApplyUnpause
    \/ ApplyReturn
    \/ ApplyAgain

(* ---------------------- extract_subtitles (295-335) -------------------- *)
\* `languages = ["fre", "fra", "fr", "french"]`
Languages == <<"fre", "fra", "fr", "french">>

\* The output file of an extraction from video `path`: base_name.lang.srt, or
\* base_name.srt (tag "") for the fallback; tag "main" names the downloaded file itself.
FileName(path, tag) == [path |-> path, tag |-> tag]

\* The file being processed: `file_path`, the `video_path` of extract_subtitles.
FilePath == artifacts[p_i]

\* Faulty variant: the loop goes on to the next language after a successful extraction.
ExtractOk_NoBreak ==
    /\ pc = "extract"
    /\ lang_i <= Len(Languages)
    /\ tried' = Append(tried, Languages[lang_i])
    /\ staged' = staged \cup {FileName(FilePath, Languages[lang_i])}
    /\ extracted' = Append(extracted, FileName(FilePath, Languages[lang_i]))
    /\ lang_i' = lang_i + 1
    /\ UNCHANGED <<now, pc, call, artifacts, video, output, p_i, sub_i, runs>>
    /\ UNCHANGED engineVars
    /\ UNCHANGED monitorVars
    /\ UNCHANGED submitVars
    /\ UNCHANGED applyTrace
    /\ UNCHANGED monitorTrace
    /\ UNCHANGED itemVars
    /\ UNCHANGED mainVars
    /\ UNCHANGED selectTrace

\* ffmpeg for the language at hand exits 0 and leaves an output file larger than 100
\* bytes: the file is appended to `extracted` and the loop is left (`break`).
ExtractOk ==
    /\ pc = "extract"
    /\ lang_i <= Len(Languages)
    /\ tried' = Append(tried, Languages[lang_i])
    /\ staged' = staged \cup {FileName(FilePath, Languages[lang_i])}
    /\ extracted' = Append(extracted, FileName(FilePath, Languages[lang_i]))
    /\ sub_i' = 1
    /\ pc' = "move_subs"
    /\ UNCHANGED <<now, call, artifacts, video, output, p_i, lang_i, runs>>
    /\ UNCHANGED engineVars
    /\ UNCHANGED monitorVars
    /\ UNCHANGED submitVars
    /\ UNCHANGED applyTrace
    /\ UNCHANGED monitorTrace
    /\ UNCHANGED itemVars
    /\ UNCHANGED mainVars
    /\ UNCHANGED selectTrace

\* ffmpeg exits 0 but its output file has at most 100 bytes: the file stays where it
\* is, nothing is appended, the next language is tried.
ExtractSmall ==
    /\ pc = "extract"
    /\ lang_i <= Len(Languages)
    /\ tried' = Append(tried, Languages[lang_i])
    /\ staged' = staged \cup {FileName(FilePath, Languages[lang_i])}
    /\ lang_i' = lang_i + 1
    /\ UNCHANGED <<now, pc, call, artifacts, video, output, p_i, sub_i, extracted, runs>>
    /\ UNCHANGED engineVars
    /\ UNCHANGED monitorVars
    /\ UNCHANGED submitVars
    /\ UNCHANGED applyTrace
    /\ UNCHANGED monitorTrace
    /\ UNCHANGED itemVars
    /\ UNCHANGED mainVars
    /\ UNCHANGED selectTrace

\* ffmpeg fails, leaves no output file, or exceeds its 30 s (the except clause): the
\* next language is tried.
ExtractFail ==
    /\ pc = "extract"
    /\ lang_i <= Len(Languages)
    /\ tried' = Append(tried, Languages[lang_i])
    /\ lang_i' = lang_i + 1
    /\ UNCHANGED <<now, pc, call, artifacts, video, output, staged, p_i, sub_i, extracted,
                   runs>>
    /\ UNCHANGED engineVars
    /\ UNCHANGED monitorVars
    /\ UNCHANGED submitVars
    /\ UNCHANGED applyTrace
    /\ UNCHANGED monitorTrace
    /\ UNCHANGED itemVars
    /\ UNCHANGED mainVars
    /\ UNCHANGED selectTrace

\* The languages are exhausted with nothing extracted (`if not extracted`): the first
\* subtitle stream is extracted, with no check of its size.
FallbackOk ==
    /\ pc = "extract"
    /\ lang_i > Len(Languages)
    /\ extracted = <<>>
    /\ tried' = Append(tried, "")
    /\ staged' = staged \cup {FileName(FilePath, "")}
    /\ extracted' = Append(extracted, FileName(FilePath, ""))
    /\ sub_i' = 1
    /\ pc' = "move_subs"
    /\ UNCHANGED <<now, call, artifacts, video, output, p_i, lang_i, runs>>
    /\ UNCHANGED engineVars
    /\ UNCHANGED monitorVars
    /\ UNCHANGED submitVars
    /\ UNCHANGED applyTrace
    /\ UNCHANGED monitorTrace
    /\ UNCHANGED itemVars
    /\ UNCHANGED mainVars
    /\ UNCHANGED selectTrace

\* The fallback extraction fails too ("No subtitles found"): `return extracted`, empty.
FallbackFail ==
    /\ pc = "extract"
    /\ lang_i > Len(Languages)
    /\ extracted = <<>>
    /\ tried' = Append(tried, "")
    /\ sub_i' = 1
    /\ pc' = "move_subs"
    /\ UNCHANGED <<now, call, artifacts, video, output, staged, p_i, lang_i, extracted,
                   runs>>
    /\ UNCHANGED engineVars
    /\ UNCHANGED monitorVars
    /\ UNCHANGED submitVars
    /\ UNCHANGED applyTrace
    /\ UNCHANGED monitorTrace
    /\ UNCHANGED itemVars
    /\ UNCHANGED mainVars
    /\ UNCHANGED selectTrace

(* ------------------ process_downloaded_files (345-367) ---------------- *)
\* `for file_path in files` is exhausted: the procedure returns.
ProcReturn ==
    /\ pc = "proc"
    /\ p_i > Len(artifacts)
    /\ pc' = "proc_done"
    /\ UNCHANGED <<now, call>>
    /\ UNCHANGED procVars
    /\ UNCHANGED engineVars
    /\ UNCHANGED monitorVars
    /\ UNCHANGED submitVars
    /\ UNCHANGED applyTrace
    /\ UNCHANGED monitorTrace
    /\ UNCHANGED itemVars
    /\ UNCHANGED mainVars
    /\ UNCHANGED selectTrace

\* `if not os.path.exists(file_path): continue`
ProcSkipMissing ==
    /\ pc = "proc"
    /\ p_i <= Len(artifacts)
    /\ FilePath \notin disk
    /\ p_i' = p_i + 1
    /\ UNCHANGED <<now, pc, call, artifacts, video, output, staged, lang_i, sub_i, extracted,
                   tried, runs>>
    /\ UNCHANGED engineVars
    /\ UNCHANGED monitorVars
    /\ UNCHANGED submitVars
    /\ UNCHANGED applyTrace
    /\ UNCHANGED monitorTrace
    /\ UNCHANGED itemVars
    /\ UNCHANGED mainVars
    /\ UNCHANGED selectTrace

\* The file exists and has a video extension: `subtitles = extract_subtitles(file_path)`.
ProcVideo ==
    /\ pc = "proc"
    /\ p_i <= Len(artifacts)
    /\ FilePath \in disk
    /\ FilePath \in video
    /\ lang_i' = 1
    /\ extracted' = <<>>
    /\ tried' = <<>>
    /\ pc' = "extract"
    /\ UNCHANGED <<now, call, artifacts, video, output, staged, p_i, sub_i, runs>>
    /\ UNCHANGED engineVars
    /\ UNCHANGED monitorVars
    /\ UNCHANGED submitVars
    /\ UNCHANGED applyTrace
    /\ UNCHANGED monitorTrace
    /\ UNCHANGED itemVars
    /\ UNCHANGED mainVars
    /\ UNCHANGED selectTrace

\* The file exists and is no video: it is moved without an extraction.
ProcOther ==
    /\ pc = "proc"
    /\ p_i <= Len(artifacts)
    /\ FilePath \in disk
    /\ FilePath \notin video
    /\ pc' = "move_main"
    /\ UNCHANGED <<now, call>>
    /\ UNCHANGED procVars
    /\ UNCHANGED engineVars
    /\ UNCHANGED monitorVars
    /\ UNCHANGED submitVars
    /\ UNCHANGED applyTrace
    /\ UNCHANGED monitorTrace
    /\ UNCHANGED itemVars
    /\ UNCHANGED mainVars
    /\ UNCHANGED selectTrace

\* `shutil.move(sub, OUTPUT_DIR)` for an extracted subtitle whose name OUTPUT_DIR does
\* not hold yet.  (`os.path.exists(sub)` holds: the file was written just before.)
MoveSub ==
    /\ pc = "move_subs"
    /\ sub_i <= Len(extracted)
    /\ extracted[sub_i] \in staged
    /\ extracted[sub_i] \notin output
    /\ staged' = staged \ {extracted[sub_i]}
    /\ output' = output \cup {extracted[sub_i]}
    /\ sub_i' = sub_i + 1
    /\ UNCHANGED <<now, pc, call, artifacts, video, p_i, lang_i, extracted, tried, runs>>
    /\ UNCHANGED engineVars
    /\ UNCHANGED monitorVars
    /\ UNCHANGED submitVars
    /\ UNCHANGED applyTrace
    /\ UNCHANGED monitorTrace
    /\ UNCHANGED itemVars
    /\ UNCHANGED mainVars
    /\ UNCHANGED selectTrace

\* `shutil.move(sub, OUTPUT_DIR)` when OUTPUT_DIR already holds a file of that name:
\* shutil.move raises shutil.Error ("Destination path ... already exists"), which
\* process_downloaded_files does not catch.
MoveSubRaises ==
    /\ pc = "move_subs"
    /\ sub_i <= Len(extracted)
    /\ extracted[sub_i] \in staged
    /\ extracted[sub_i] \in output
    /\ pc' = "proc_raised"
    /\ UNCHANGED <<now, call>>
    /\ UNCHANGED procVars
    /\ UNCHANGED engineVars
    /\ UNCHANGED monitorVars
    /\ UNCHANGED submitVars
    /\ UNCHANGED applyTrace
    /\ UNCHANGED monitorTrace
    /\ UNCHANGED itemVars
    /\ UNCHANGED mainVars
    /\ UNCHANGED selectTrace

\* The subtitles are done: `shutil.move(file_path, OUTPUT_DIR)`, which raises like the
\* move of a subtitle when OUTPUT_DIR already holds the name.
MoveMain ==
    /\ pc \in {"move_subs", "move_main"}
    /\ pc = "move_subs" => sub_i > Len(extracted)
    /\ IF FileName(FilePath, "main") \in output
         THEN /\ pc' = "proc_raised"
              /\ UNCHANGED <<disk, output, p_i>>
         ELSE /\ disk' = disk \ {FilePath}
              /\ output' = output \cup {FileName(FilePath, "main")}
              /\ p_i' = p_i + 1
              /\ pc' = "proc"
    /\ UNCHANGED <<now, call, artifacts, video, staged, lang_i, sub_i, extracted, tried, runs>>
    /\ UNCHANGED <<remote, filesKnown, jobFiles, sel>>
    /\ UNCHANGED monitorVars
    /\ UNCHANGED submitVars
    /\ UNCHANGED applyTrace
    /\ UNCHANGED monitorTrace
    /\ UNCHANGED itemVars
    /\ UNCHANGED mainVars
    /\ UNCHANGED selectTrace

\* The program is stopped in the middle of a run (a signal, a power cut, or the
\* exception of a move): whatever was moved so far stays moved.
ProcInterrupted ==
    /\ pc \in {"proc", "extract", "move_subs", "move_main", "proc_raised"}
    /\ runs = 1
    /\ pc' = "proc_stopped"
    /\ UNCHANGED <<now, call>>
    /\ UNCHANGED procVars
    /\ UNCHANGED engineVars
    /\ UNCHANGED monitorVars
    /\ UNCHANGED submitVars
    /\ UNCHANGED applyTrace
    /\ UNCHANGED monitorTrace
    /\ UNCHANGED itemVars
    /\ UNCHANGED mainVars
    /\ UNCHANGED selectTrace

\* process_downloaded_files is run again on the same list of files.
ProcAgain ==
    /\ pc \in {"proc_done", "proc_stopped"}
    /\ runs = 1
    /\ runs' = 2
    /\ p_i' = 1
    /\ pc' = "proc"
    /\ UNCHANGED <<now, call, artifacts, video, output, staged, lang_i, sub_i, extracted,
                   tried>>
    /\ UNCHANGED engineVars
    /\ UNCHANGED monitorVars
    /\ UNCHANGED submitVars
    /\ UNCHANGED applyTrace
    /\ UNCHANGED monitorTrace
    /\ UNCHANGED itemVars
    /\ UNCHANGED mainVars
    /\ UNCHANGED selectTrace

ExtractStep ==
    \/ ExtractOk
    \/ ExtractSmall
    \/ ExtractFail
    \/ FallbackOk
    \/ FallbackFail

ProcStep ==
    \/ ProcReturn
    \/ ProcSkipMissing
    \/ ProcVideo
    \/ ProcOther
    \/ MoveSub
    \/ MoveSubRaises
    \/ MoveMain

(* ------------------------ the engine's download ----------------------- *)
\* A running job whose metadata is known completes: the files selected in it are on disk.
EngineFinish ==
    /\ remote = "active"
    /\ filesKnown
    /\ remote' = "complete"
    /\ disk' = disk \cup ({jobFiles[i + 1] : i \in sel \cap (0..(Len(jobFiles) - 1))} \ {0})
    /\ UNCHANGED <<now, pc, call, filesKnown, jobFiles, sel>>
    /\ UNCHANGED monitorVars
    /\ UNCHANGED submitVars
    /\ UNCHANGED procVars
    /\ UNCHANGED itemVars
    /\ UNCHANGED monitorTrace
    /\ UNCHANGED applyTrace
    /\ UNCHANGED mainVars
    /\ UNCHANGED selectTrace

\* A job fails or is removed (an external cancel) before it completes.
EngineAbort ==
    /\ remote \in {"active", "paused"}
    /\ remote' \in {"error", "removed"}
    /\ remote = "paused" => remote' = "removed"
    /\ UNCHANGED <<now, pc, call, filesKnown, jobFiles, sel, disk>>
    /\ UNCHANGED monitorVars
    /\ UNCHANGED submitVars
    /\ UNCHANGED procVars
    /\ UNCHANGED itemVars
    /\ UNCHANGED monitorTrace
    /\ UNCHANGED applyTrace
    /\ UNCHANGED mainVars
    /\ UNCHANGED selectTrace

(* ------------------------ add_magnet_link (168-189) -------------------- *)
\* `result = self.aria2_call("aria2.addUri", [[magnet_uri], options])`
MagnetSubmit ==
    /\ pc = "add_magnet"
    /\ call' = NewCall("addUri", [uri |-> "magnet"])
    /\ pc' = "magnet_call"
    /\ UNCHANGED now
    /\ UNCHANGED engineVars
    /\ UNCHANGED monitorVars
    /\ UNCHANGED submitVars
    /\ UNCHANGED procVars
    /\ UNCHANGED itemVars
    /\ UNCHANGED monitorTrace
    /\ UNCHANGED applyTrace
    /\ UNCHANGED mainVars
    /\ UNCHANGED selectTrace

\* `return result.get("result") if result else None`
MagnetResult ==
    /\ pc = "magnet_call"
    /\ call.st = "done"
    /\ call' = NoCall
    /\ gid' = GidOf(call.result)
    /\ pc' = "add_done"
    /\ UNCHANGED <<now, selected_files, files_start, files, idx, rounds, sel_before,
                   sel_ok, pause_sent>>
    /\ UNCHANGED engineVars
    /\ UNCHANGED monitorVars
    /\ UNCHANGED procVars
    /\ UNCHANGED itemVars
    /\ UNCHANGED monitorTrace
    /\ UNCHANGED applyTrace
    /\ UNCHANGED mainVars
    /\ UNCHANGED selectTrace

(* -------------------------- download_item (369-398) -------------------- *)
\* `os.path.isfile(item) and item.lower().endswith('.torrent')`: add_torrent_file.
ItemTorrent ==
    /\ pc = "item"
    /\ item = "torrent"
    /\ pc' = "add"
    /\ UNCHANGED <<now, call>>
    /\ UNCHANGED engineVars
    /\ UNCHANGED monitorVars
    /\ UNCHANGED submitVars
    /\ UNCHANGED procVars
    /\ UNCHANGED itemVars
    /\ UNCHANGED monitorTrace
    /\ UNCHANGED applyTrace
    /\ UNCHANGED mainVars
    /\ UNCHANGED selectTrace

\* `item.startswith('magnet:')`: add_magnet_link.
ItemMagnet ==
    /\ pc = "item"
    /\ item = "magnet"
    /\ pc' = "add_magnet"
    /\ UNCHANGED <<now, call>>
    /\ UNCHANGED engineVars
    /\ UNCHANGED monitorVars
    /\ UNCHANGED submitVars
    /\ UNCHANGED procVars
    /\ UNCHANGED itemVars
    /\ UNCHANGED monitorTrace
    /\ UNCHANGED applyTrace
    /\ UNCHANGED mainVars
    /\ UNCHANGED selectTrace

\* Neither: "Unsupported item", `return False`.
ItemUnsupported ==
    /\ pc = "item"
    /\ item \notin {"torrent", "magnet"}
    /\ returned' = "False"
    /\ pc' = "item_done"
    /\ UNCHANGED <<now, call, item, proc_calls>>
    /\ UNCHANGED engineVars
    /\ UNCHANGED monitorVars
    /\ UNCHANGED submitVars
    /\ UNCHANGED procVars
    /\ UNCHANGED monitorTrace
    /\ UNCHANGED applyTrace
    /\ UNCHANGED mainVars
    /\ UNCHANGED selectTrace

\* `if not gid: return False`
ItemNoGid ==
    /\ pc = "add_done"
    /\ ~in_select
    /\ gid = 0
    /\ returned' = "False"
    /\ pc' = "item_done"
    /\ UNCHANGED <<now, call, item, proc_calls>>
    /\ UNCHANGED engineVars
    /\ UNCHANGED monitorVars
    /\ UNCHANGED submitVars
    /\ UNCHANGED procVars
    /\ UNCHANGED monitorTrace
    /\ UNCHANGED applyTrace
    /\ UNCHANGED mainVars
    /\ UNCHANGED selectTrace

\* `downloaded_files = self.monitor_download(gid, name, 600)`.  The monitor reads the
\* clock only relative to the start_time it takes on entry, so it is entered at time 0.
ItemMonitor ==
    /\ pc = "add_done"
    /\ ~in_select
    /\ gid # 0
    /\ now' = 0
    /\ timeout' = ItemTimeout
    /\ files_start' = 0
    /\ pc' = "monitor"
    /\ UNCHANGED <<call, gid, selected_files, files, idx, rounds, sel_before, sel_ok,
                   pause_sent>>
    /\ UNCHANGED applyTrace
    /\ UNCHANGED <<start_time, last_update, status, outcome, downloaded, queries, polls_failed>>
    /\ UNCHANGED engineVars
    /\ UNCHANGED procVars
    /\ UNCHANGED itemVars
    /\ UNCHANGED monitorTrace
    /\ UNCHANGED mainVars
    /\ UNCHANGED selectTrace

\* `if downloaded_files: self.process_downloaded_files(downloaded_files, name)`.  The
\* locals of the monitor that has returned are dropped.
ItemProcess ==
    /\ pc = "mon_done"
    /\ downloaded # <<>>
    /\ artifacts' = downloaded
    /\ p_i' = 1
    /\ runs' = runs + 1
    /\ proc_calls' = proc_calls + 1
    /\ now' = 0
    /\ start_time' = 0
    /\ last_update' = 0
    /\ status' = None
    /\ pc' = "proc"
    /\ UNCHANGED <<call, item, returned, video, output, staged, lang_i, sub_i, extracted,
                   tried>>
    /\ UNCHANGED <<timeout, outcome, downloaded, queries, polls_failed>>
    /\ UNCHANGED engineVars
    /\ UNCHANGED submitVars
    /\ UNCHANGED monitorTrace
    /\ UNCHANGED applyTrace
    /\ UNCHANGED mainVars
    /\ UNCHANGED selectTrace

\* `else: return False`: the monitor returned an empty list.
ItemNoFiles ==
    /\ pc = "mon_done"
    /\ downloaded = <<>>
    /\ returned' = "False"
    /\ now' = 0
    /\ start_time' = 0
    /\ last_update' = 0
    /\ status' = None
    /\ pc' = "item_done"
    /\ UNCHANGED <<call, item, proc_calls>>
    /\ UNCHANGED <<timeout, outcome, downloaded, queries, polls_failed>>
    /\ UNCHANGED engineVars
    /\ UNCHANGED submitVars
    /\ UNCHANGED procVars
    /\ UNCHANGED monitorTrace
    /\ UNCHANGED applyTrace
    /\ UNCHANGED mainVars
    /\ UNCHANGED selectTrace

\* process_downloaded_files returned: `return True`.
ItemProcessed ==
    /\ pc = "proc_done"
    /\ returned' = "True"
    /\ pc' = "item_done"
    /\ UNCHANGED <<now, call, item, proc_calls>>
    /\ UNCHANGED engineVars
    /\ UNCHANGED monitorVars
    /\ UNCHANGED submitVars
    /\ UNCHANGED procVars
    /\ UNCHANGED monitorTrace
    /\ UNCHANGED applyTrace
    /\ UNCHANGED mainVars
    /\ UNCHANGED selectTrace

\* Faulty variant: the exception leaves download_item.
ItemExcept_Propagates ==
    /\ pc = "proc_raised"
    /\ pc' = "item_raised"
    /\ UNCHANGED <<now, call>>
    /\ UNCHANGED itemVars
    /\ UNCHANGED engineVars
    /\ UNCHANGED monitorVars
    /\ UNCHANGED submitVars
    /\ UNCHANGED procVars
    /\ UNCHANGED monitorTrace
    /\ UNCHANGED applyTrace
    /\ UNCHANGED mainVars
    /\ UNCHANGED selectTrace

\* `except Exception as e: ... return False`: an exception raised inside the try block
\* (here by shutil.move) is caught.
ItemExcept ==
    /\ pc = "proc_raised"
    /\ returned' = "False"
    /\ pc' = "item_done"
    /\ UNCHANGED <<now, call, item, proc_calls>>
    /\ UNCHANGED engineVars
    /\ UNCHANGED monitorVars
    /\ UNCHANGED submitVars
    /\ UNCHANGED procVars
    /\ UNCHANGED monitorTrace
    /\ UNCHANGED applyTrace
    /\ UNCHANGED mainVars
    /\ UNCHANGED selectTrace

AddStep ==
    \/ AddReadFails
    \/ AddSubmit
    \/ AddResultApply
    \/ AddResultReturn
    \/ FilesQuery
    \/ FilesTimedOut
    \/ FilesReturned
    \/ FilesRetry
    \/ ApplyNoFiles
    \/ ApplySelect
    \/ ApplySelected
    \/ ApplyUnpause
    \/ ApplyReturn
    \/ MagnetSubmit
    \/ MagnetResult

ItemStep ==
    \/ ItemTorrent
    \/ ItemMagnet
    \/ ItemUnsupported
    \/ ItemNoGid
    \/ ItemMonitor
    \/ ItemProcess
    \/ ItemNoFiles
    \/ ItemProcessed
    \/ ItemExcept

(* ------------------------ start_aria2_rpc (82-141) --------------------- *)
\* pkill, `time.sleep(2)`, and aria2c is started: the probe loop is entered.
StartSpawn ==
    /\ pc = "start"
    /\ now' = now + StartSleep
    /\ probe_i' = 0
    /\ pc' = "probe"
    /\ UNCHANGED <<call, probe_slept, started, in_select, asked, selected>>
    /\ UNCHANGED engineVars
    /\ UNCHANGED monitorVars
    /\ UNCHANGED submitVars
    /\ UNCHANGED procVars
    /\ UNCHANGED itemVars
    /\ UNCHANGED monitorTrace
    /\ UNCHANGED applyTrace
    /\ UNCHANGED selectTrace

\* subprocess.Popen raises (no aria2c): the outer except clause returns False.
StartSpawnFails ==
    /\ pc = "start"
    /\ now' = now + StartSleep
    /\ started' = "False"
    /\ pc' = "main_started"
    /\ UNCHANGED <<call, probe_i, probe_slept, in_select, asked, selected>>
    /\ UNCHANGED engineVars
    /\ UNCHANGED monitorVars
    /\ UNCHANGED submitVars
    /\ UNCHANGED procVars
    /\ UNCHANGED itemVars
    /\ UNCHANGED monitorTrace
    /\ UNCHANGED applyTrace
    /\ UNCHANGED selectTrace

\* A probe (aria2.getVersion) is answered with status 200: `return True`.
ProbeReady ==
    /\ pc = "probe"
    /\ probe_i < ProbeAttempts
    /\ probe_i' = probe_i + 1
    /\ probe_slept' = FALSE
    /\ started' = "True"
    /\ pc' = "main_started"
    /\ UNCHANGED <<now, call, in_select, asked, selected>>
    /\ UNCHANGED engineVars
    /\ UNCHANGED monitorVars
    /\ UNCHANGED submitVars
    /\ UNCHANGED procVars
    /\ UNCHANGED itemVars
    /\ UNCHANGED monitorTrace
    /\ UNCHANGED applyTrace
    /\ UNCHANGED selectTrace

\* A probe is answered with another status: the next iteration follows at once.
ProbeNot200 ==
    /\ pc = "probe"
    /\ probe_i < ProbeAttempts
    /\ probe_i' = probe_i + 1
    /\ probe_slept' = FALSE
    /\ UNCHANGED <<now, pc, call, started, in_select, asked, selected>>
    /\ UNCHANGED engineVars
    /\ UNCHANGED monitorVars
    /\ UNCHANGED submitVars
    /\ UNCHANGED procVars
    /\ UNCHANGED itemVars
    /\ UNCHANGED monitorTrace
    /\ UNCHANGED applyTrace
    /\ UNCHANGED selectTrace

\* A probe raises (connection refused, no answer in 2 s): `time.sleep(1)`.
ProbeRaises ==
    /\ pc = "probe"
    /\ probe_i < ProbeAttempts
    /\ probe_i' = probe_i + 1
    /\ now' = now + ProbeSleep
    /\ probe_slept' = TRUE
    /\ UNCHANGED <<pc, call, started, in_select, asked, selected>>
    /\ UNCHANGED engineVars
    /\ UNCHANGED monitorVars
    /\ UNCHANGED submitVars
    /\ UNCHANGED procVars
    /\ UNCHANGED itemVars
    /\ UNCHANGED monitorTrace
    /\ UNCHANGED applyTrace
    /\ UNCHANGED selectTrace

\* `range(30)` is exhausted: "aria2 RPC failed to start", `return False`.
ProbeExhausted ==
    /\ pc = "probe"
    /\ ~(probe_i < ProbeAttempts)
    /\ started' = "False"
    /\ pc' = "main_started"
    /\ UNCHANGED <<now, call, probe_i, probe_slept, in_select, asked, selected>>
    /\ UNCHANGED engineVars
    /\ UNCHANGED monitorVars
    /\ UNCHANGED submitVars
    /\ UNCHANGED procVars
    /\ UNCHANGED itemVars
    /\ UNCHANGED monitorTrace
    /\ UNCHANGED applyTrace
    /\ UNCHANGED selectTrace

StartStep ==
    \/ StartSpawn
    \/ StartSpawnFails
    \/ ProbeReady
    \/ ProbeNot200
    \/ ProbeRaises
    \/ ProbeExhausted

(* ---------------------- get_torrent_selection (400-434) ---------------- *)
\* `gid = self.add_torrent_file(torrent_path, [])` returned no handle: `return []`, and
\* main goes on with download_item(torrent_path, []).
SelectNoGid ==
    /\ pc = "add_done"
    /\ in_select
    /\ gid = 0
    /\ in_select' = FALSE
    /\ selected' = [given |-> TRUE, items |-> {}]
    /\ selected_files' = [given |-> TRUE, items |-> {}]
    /\ item' = "torrent"
    /\ pc' = "item"
    /\ UNCHANGED <<now, call, probe_i, probe_slept, started, asked, returned, proc_calls>>
    /\ UNCHANGED <<gid, files_start, files, idx, rounds, sel_before, sel_ok, pause_sent>>
    /\ UNCHANGED engineVars
    /\ UNCHANGED monitorVars
    /\ UNCHANGED procVars
    /\ UNCHANGED monitorTrace
    /\ UNCHANGED applyTrace
    /\ UNCHANGED selectTrace

\* `files = self.get_torrent_files(gid)`, which takes its start_time.
SelectFiles ==
    /\ pc = "add_done"
    /\ in_select
    /\ gid # 0
    /\ files_start' = now
    /\ files' = <<>>
    /\ pc' = "gtf_loop"
    /\ UNCHANGED <<now, call>>
    /\ UNCHANGED <<gid, selected_files, idx, rounds, sel_before, sel_ok, pause_sent>>
    /\ UNCHANGED mainVars
    /\ UNCHANGED engineVars
    /\ UNCHANGED monitorVars
    /\ UNCHANGED procVars
    /\ UNCHANGED itemVars
    /\ UNCHANGED monitorTrace
    /\ UNCHANGED applyTrace
    /\ tmp_gid' = gid
    /\ UNCHANGED removes

\* `if not files: return []`, and main goes on with download_item(torrent_path, []).
SelectNoFiles ==
    /\ pc = "apply_files"
    /\ in_select
    /\ files = <<>>
    /\ in_select' = FALSE
    /\ selected' = [given |-> TRUE, items |-> {}]
    /\ selected_files' = [given |-> TRUE, items |-> {}]
    /\ gid' = 0
    /\ item' = "torrent"
    /\ pc' = "item"
    /\ UNCHANGED <<now, call, probe_i, probe_slept, started, asked, returned, proc_calls>>
    /\ UNCHANGED <<files_start, files, idx, rounds, sel_before, sel_ok, pause_sent>>
    /\ UNCHANGED engineVars
    /\ UNCHANGED monitorVars
    /\ UNCHANGED procVars
    /\ UNCHANGED monitorTrace
    /\ UNCHANGED applyTrace
    /\ UNCHANGED selectTrace

\* The files are listed and the user answers: 'all' or an answer that does not parse
\* gives every index, a list of numbers gives those numbers, which may lie outside the
\* file list.  Then `self.aria2_call("aria2.remove", [gid])`.
SelectInput ==
    /\ pc = "apply_files"
    /\ in_select
    /\ files # <<>>
    /\ \E S \in {0..(Len(files) - 1), {0}, {Len(files)}} :
          selected' = [given |-> TRUE, items |-> S]
    /\ call' = NewCall("remove", [gid |-> gid])
    /\ pc' = "select_remove"
    /\ UNCHANGED <<now, probe_i, probe_slept, started, in_select, asked>>
    /\ UNCHANGED engineVars
    /\ UNCHANGED monitorVars
    /\ UNCHANGED submitVars
    /\ UNCHANGED procVars
    /\ UNCHANGED itemVars
    /\ UNCHANGED monitorTrace
    /\ UNCHANGED applyTrace
    /\ removes' = removes + 1
    /\ UNCHANGED tmp_gid

\* `return selected`, and main goes on with download_item(torrent_path, selected).
SelectReturn ==
    /\ pc = "select_remove"
    /\ call.st = "done"
    /\ call' = NoCall
    /\ in_select' = FALSE
    /\ selected_files' = selected
    /\ gid' = 0
    /\ files' = <<>>
    /\ item' = "torrent"
    /\ pc' = "item"
    /\ UNCHANGED <<now, probe_i, probe_slept, started, asked, selected, returned, proc_calls>>
    /\ UNCHANGED <<files_start, idx, rounds, sel_before, sel_ok, pause_sent>>
    /\ UNCHANGED engineVars
    /\ UNCHANGED monitorVars
    /\ UNCHANGED procVars
    /\ UNCHANGED monitorTrace
    /\ UNCHANGED applyTrace
    /\ UNCHANGED selectTrace

SelectStep ==
    \/ SelectNoGid
    \/ SelectFiles
    \/ SelectNoFiles
    \/ SelectInput
    \/ SelectReturn

(* ------------------------------ main (454-494) ------------------------- *)
\* Faulty variant: main goes on to the menu whatever start_aria2_rpc returned.
MainMenu_Unchecked ==
    /\ pc = "main_started"
    /\ pc' = "menu"
    /\ UNCHANGED <<now, call>>
    /\ UNCHANGED mainVars
    /\ UNCHANGED engineVars
    /\ UNCHANGED monitorVars
    /\ UNCHANGED submitVars
    /\ UNCHANGED procVars
    /\ UNCHANGED itemVars
    /\ UNCHANGED monitorTrace
    /\ UNCHANGED applyTrace
    /\ UNCHANGED selectTrace

\* `if not self.start_aria2_rpc(): ... return`
MainNoEngine ==
    /\ pc = "main_started"
    /\ started # "True"
    /\ pc' = "main_exit"
    /\ UNCHANGED <<now, call>>
    /\ UNCHANGED mainVars
    /\ UNCHANGED engineVars
    /\ UNCHANGED monitorVars
    /\ UNCHANGED submitVars
    /\ UNCHANGED procVars
    /\ UNCHANGED itemVars
    /\ UNCHANGED monitorTrace
    /\ UNCHANGED applyTrace
    /\ UNCHANGED selectTrace

\* start_aria2_rpc returned True: the menu loop is entered.  Nothing after this reads the
\* clock but relative to a start_time taken later, so the menu is entered at time 0.
MainMenu ==
    /\ pc = "main_started"
    /\ started = "True"
    /\ now' = 0
    /\ probe_i' = 0
    /\ pc' = "menu"
    /\ UNCHANGED <<call, probe_slept, started, in_select, asked, selected>>
    /\ UNCHANGED engineVars
    /\ UNCHANGED monitorVars
    /\ UNCHANGED submitVars
    /\ UNCHANGED procVars
    /\ UNCHANGED itemVars
    /\ UNCHANGED monitorTrace
    /\ UNCHANGED applyTrace
    /\ UNCHANGED selectTrace

\* Choice "1" with a non-empty answer, a magnet link or not: `self.download_item(magnet)`.
MenuMagnet ==
    /\ pc = "menu"
    /\ ~asked
    /\ asked' = TRUE
    /\ item' \in {"magnet", "other"}
    /\ pc' = "item"
    /\ UNCHANGED <<now, call, probe_i, probe_slept, started, in_select, selected, returned,
                   proc_calls>>
    /\ UNCHANGED engineVars
    /\ UNCHANGED monitorVars
    /\ UNCHANGED submitVars
    /\ UNCHANGED procVars
    /\ UNCHANGED monitorTrace
    /\ UNCHANGED applyTrace
    /\ UNCHANGED selectTrace

\* Choice "2" with an uploaded torrent file: get_torrent_selection is entered, and in it
\* add_torrent_file(torrent_path, []).
MenuTorrent ==
    /\ pc = "menu"
    /\ ~asked
    /\ asked' = TRUE
    /\ in_select' = TRUE
    /\ selected_files' = [given |-> TRUE, items |-> {}]
    /\ pc' = "add"
    /\ UNCHANGED <<now, call, probe_i, probe_slept, started, selected>>
    /\ UNCHANGED <<gid, files_start, files, idx, rounds, sel_before, sel_ok, pause_sent>>
    /\ UNCHANGED engineVars
    /\ UNCHANGED monitorVars
    /\ UNCHANGED procVars
    /\ UNCHANGED itemVars
    /\ UNCHANGED monitorTrace
    /\ UNCHANGED applyTrace
    /\ UNCHANGED selectTrace

\* download_item has returned: the menu is shown again.
MenuAgain ==
    /\ pc = "item_done"
    /\ pc' = "menu"
    /\ UNCHANGED <<now, call>>
    /\ UNCHANGED mainVars
    /\ UNCHANGED engineVars
    /\ UNCHANGED monitorVars
    /\ UNCHANGED submitVars
    /\ UNCHANGED procVars
    /\ UNCHANGED itemVars
    /\ UNCHANGED monitorTrace
    /\ UNCHANGED applyTrace
    /\ UNCHANGED selectTrace

\* Choice "4": `break`, and cleanup.
MenuExit ==
    /\ pc = "menu"
    /\ pc' = "main_exit"
    /\ UNCHANGED <<now, call>>
    /\ UNCHANGED mainVars
    /\ UNCHANGED engineVars
    /\ UNCHANGED monitorVars
    /\ UNCHANGED submitVars
    /\ UNCHANGED procVars
    /\ UNCHANGED itemVars
    /\ UNCHANGED monitorTrace
    /\ UNCHANGED applyTrace
    /\ UNCHANGED selectTrace

MainStep ==
    \/ MainNoEngine
    \/ MainMenu
    \/ MenuMagnet
    \/ MenuTorrent
    \/ MenuAgain
    \/ MenuExit

(* ------------------- a session: monitor_download(gid) ------------------ *)
\* The state in which monitor_download is entered for a job of the engine: the job in
\* any status, its metadata known or not, any file list, any of its paths on disk.
Init ==
    /\ now = 0
    /\ pc = "monitor"
    /\ call = NoCall
    /\ remote \in Statuses
    /\ filesKnown \in BOOLEAN
    /\ \E n \in 0..MaxFiles : jobFiles \in FileLists(n)
    /\ sel = 0..(Len(jobFiles) - 1)
    /\ disk \in SUBSET (1..Len(jobFiles))
    /\ gid = 1
    /\ timeout = Timeout
    /\ start_time = 0
    /\ last_update = 0
    /\ status = None
    /\ outcome = "none"
    /\ downloaded = <<>>
    /\ queries = 0
    /\ polls_failed = FALSE
    /\ selected_files = NoSelection
    /\ files_start = 0
    /\ files = <<>>
    /\ idx = 0
    /\ rounds = 0
    /\ sel_before = {}
    /\ sel_ok = {}
    /\ pause_sent = "unset"
    /\ issued = <<>>
    /\ reports = 0
    /\ artifacts = <<>>
    /\ video = {}
    /\ output = {}
    /\ staged = {}
    /\ p_i = 0
    /\ lang_i = 0
    /\ sub_i = 0
    /\ extracted = <<>>
    /\ tried = <<>>
    /\ runs = 0
    /\ item = "none"
    /\ returned = "none"
    /\ proc_calls = 0
    /\ probe_i = 0
    /\ probe_slept = TRUE
    /\ started = "True"
    /\ in_select = FALSE
    /\ asked = FALSE
    /\ selected = NoSelection
    /\ tmp_gid = 0
    /\ removes = 0

Next == MonitorStep \/ CallStep \/ EngineStep \/ EngineMetadata

Spec == Init /\ [][Next]_vars

(* --------- a long session: monitor_download of a one-file job ---------- *)
\* monitor_download is entered for a running or paused job of one file, with a timeout
\* long enough for two progress reports.
InitLong ==
    /\ now = 0
    /\ pc = "monitor"
    /\ call = NoCall
    /\ remote \in {"active", "paused"}
    /\ filesKnown \in BOOLEAN
    /\ jobFiles = <<1>>
    /\ sel = {0}
    /\ disk = {}
    /\ gid = 1
    /\ timeout = Timeout + ProgressEvery
    /\ start_time = 0
    /\ last_update = 0
    /\ status = None
    /\ outcome = "none"
    /\ downloaded = <<>>
    /\ queries = 0
    /\ polls_failed = FALSE
    /\ selected_files = NoSelection
    /\ files_start = 0
    /\ files = <<>>
    /\ idx = 0
    /\ rounds = 0
    /\ sel_before = {}
    /\ sel_ok = {}
    /\ pause_sent = "unset"
    /\ issued = <<>>
    /\ reports = 0
    /\ artifacts = <<>>
    /\ video = {}
    /\ output = {}
    /\ staged = {}
    /\ p_i = 0
    /\ lang_i = 0
    /\ sub_i = 0
    /\ extracted = <<>>
    /\ tried = <<>>
    /\ runs = 0
    /\ item = "none"
    /\ returned = "none"
    /\ proc_calls = 0
    /\ probe_i = 0
    /\ probe_slept = TRUE
    /\ started = "True"
    /\ in_select = FALSE
    /\ asked = FALSE
    /\ selected = NoSelection
    /\ tmp_gid = 0
    /\ removes = 0

SpecLong == InitLong /\ [][Next]_vars

\* The same session when the clock advances and every call returns: the monitor and
\* the channel keep taking their steps.  Nothing is assumed of the engine.
SpecLive == InitLong /\ [][Next]_vars /\ WF_vars(MonitorStep) /\ WF_vars(CallStep)

(* ------------- a submission: add_torrent_file(path, selection) --------- *)
\* The selections add_torrent_file is called with: absent, or a list of indices, some of
\* which may lie outside the job's file list.
Selections == {NoSelection} \cup {[given |-> TRUE, items |-> S] : S \in SUBSET (0..MaxFiles)}

\* The state in which add_torrent_file is entered: no job in the engine yet; the torrent
\* has between 1 and MaxFiles files, whose list the engine learns after the submission.
InitSubmit ==
    /\ now = 0
    /\ pc = "add"
    /\ call = NoCall
    /\ remote = "none"
    /\ filesKnown = FALSE
    /\ \E n \in 1..MaxFiles : jobFiles = [i \in 1..n |-> i]
    /\ sel = {}
    /\ disk = {}
    /\ gid = 0
    /\ timeout = Timeout
    /\ start_time = 0
    /\ last_update = 0
    /\ status = None
    /\ outcome = "none"
    /\ downloaded = <<>>
    /\ queries = 0
    /\ polls_failed = FALSE
    /\ selected_files \in Selections
    /\ files_start = 0
    /\ files = <<>>
    /\ idx = 0
    /\ rounds = 0
    /\ sel_before = {}
    /\ sel_ok = {}
    /\ pause_sent = "unset"
    /\ issued = <<>>
    /\ reports = 0
    /\ artifacts = <<>>
    /\ video = {}
    /\ output = {}
    /\ staged = {}
    /\ p_i = 0
    /\ lang_i = 0
    /\ sub_i = 0
    /\ extracted = <<>>
    /\ tried = <<>>
    /\ runs = 0
    /\ item = "none"
    /\ returned = "none"
    /\ proc_calls = 0
    /\ probe_i = 0
    /\ probe_slept = TRUE
    /\ started = "True"
    /\ in_select = FALSE
    /\ asked = FALSE
    /\ selected = NoSelection
    /\ tmp_gid = 0
    /\ removes = 0

NextSubmit == SubmitStep \/ CallStep \/ EngineStep \/ EngineMetadata

SpecSubmit == InitSubmit /\ [][NextSubmit]_vars

(* --------- post-processing: process_downloaded_files(files), twice ----- *)
\* The lists monitor_download hands over: distinct paths, in the engine's order.
\* The first of them may be a video.
ArtifactLists == {[i \in 1..n |-> i] : n \in 0..MaxFiles}

InitProcess ==
    /\ now = 0
    /\ pc = "proc"
    /\ call = NoCall
    /\ remote = "complete"
    /\ filesKnown = TRUE
    /\ sel = {}
    /\ gid = 1
    /\ timeout = 0
    /\ start_time = 0
    /\ last_update = 0
    /\ status = None
    /\ outcome = "none"
    /\ downloaded = <<>>
    /\ queries = 0
    /\ polls_failed = FALSE
    /\ selected_files = NoSelection
    /\ files_start = 0
    /\ files = <<>>
    /\ idx = 0
    /\ rounds = 0
    /\ sel_before = {}
    /\ sel_ok = {}
    /\ pause_sent = "unset"
    /\ issued = <<>>
    /\ reports = 0
    /\ artifacts \in ArtifactLists
    /\ video \in SUBSET {1}
    /\ output = {}
    /\ staged = {}
    /\ p_i = 1
    /\ lang_i = 0
    /\ sub_i = 0
    /\ extracted = <<>>
    /\ tried = <<>>
    /\ runs = 1
    /\ jobFiles = artifacts
    /\ disk = {artifacts[i] : i \in 1..Len(artifacts)}
    /\ video \subseteq disk
    /\ item = "none"
    /\ returned = "none"
    /\ proc_calls = 0
    /\ probe_i = 0
    /\ probe_slept = TRUE
    /\ started = "True"
    /\ in_select = FALSE
    /\ asked = FALSE
    /\ selected = NoSelection
    /\ tmp_gid = 0
    /\ removes = 0

NextProcess == ProcStep \/ ExtractStep \/ ProcInterrupted \/ ProcAgain

SpecProcess == InitProcess /\ [][NextProcess]_vars

(* ------------------ an item: download_item(item, selection) ------------ *)
\* The selections download_item is called with for a torrent: absent, empty, the first
\* file only, or every index up to one past the job's last.
ItemSelections ==
    {NoSelection} \cup {[given |-> TRUE, items |-> S] : S \in {{}, {0}, 0..MaxFiles}}

\* The state in which download_item is entered: no job in the engine, nothing downloaded.
\* The item names a job of MaxFiles files whose first file is a video; OUTPUT_DIR may
\* hold a subtitle file of an earlier download of that video.
InitItem ==
    /\ item \in {"torrent", "magnet", "other"}
    /\ now = 0
    /\ pc = "item"
    /\ call = NoCall
    /\ remote = "none"
    /\ filesKnown = FALSE
    /\ jobFiles = [i \in 1..MaxFiles |-> i]
    /\ sel = {}
    /\ disk = {}
    /\ gid = 0
    /\ timeout = Timeout
    /\ start_time = 0
    /\ last_update = 0
    /\ status = None
    /\ outcome = "none"
    /\ downloaded = <<>>
    /\ queries = 0
    /\ polls_failed = FALSE
    /\ selected_files \in (IF item = "torrent" THEN ItemSelections ELSE {NoSelection})
    /\ files_start = 0
    /\ files = <<>>
    /\ idx = 0
    /\ rounds = 0
    /\ sel_before = {}
    /\ sel_ok = {}
    /\ pause_sent = "unset"
    /\ issued = <<>>
    /\ reports = 0
    /\ artifacts = <<>>
    /\ video = {1}
    /\ output \in SUBSET {FileName(1, "fre")}
    /\ staged = {}
    /\ p_i = 0
    /\ lang_i = 0
    /\ sub_i = 0
    /\ extracted = <<>>
    /\ tried = <<>>
    /\ runs = 0
    /\ returned = "none"
    /\ proc_calls = 0
    /\ probe_i = 0
    /\ probe_slept = TRUE
    /\ started = "True"
    /\ in_select = FALSE
    /\ asked = FALSE
    /\ selected = NoSelection
    /\ tmp_gid = 0
    /\ removes = 0

\* download_item hands process_downloaded_files the files the monitor has just seen on
\* disk, and nothing but process_downloaded_files removes them: its missing-file branch
\* is not taken here.
NextItem ==
    \/ ItemStep
    \/ AddStep
    \/ MonitorStep
    \/ ProcReturn
    \/ ProcVideo
    \/ ProcOther
    \/ MoveSub
    \/ MoveSubRaises
    \/ MoveMain
    \/ ExtractStep
    \/ CallStep
    \/ EngineFinish
    \/ EngineAbort
    \/ EngineMetadata

SpecItem == InitItem /\ [][NextItem]_vars

(* -------------------------------- main() ------------------------------- *)
\* The state in which main is entered: no engine process, no job; the torrent the user
\* uploads and the magnet link they enter name a job of MaxFiles files whose first file
\* is a video, a subtitle of which OUTPUT_DIR holds from an earlier download.  The user
\* asks for at most one download.
InitMain ==
    /\ item = "none"
    /\ now = 0
    /\ pc = "start"
    /\ call = NoCall
    /\ remote = "none"
    /\ filesKnown = FALSE
    /\ jobFiles = [i \in 1..MaxFiles |-> i]
    /\ sel = {}
    /\ disk = {}
    /\ gid = 0
    /\ timeout = Timeout
    /\ start_time = 0
    /\ last_update = 0
    /\ status = None
    /\ outcome = "none"
    /\ downloaded = <<>>
    /\ queries = 0
    /\ polls_failed = FALSE
    /\ selected_files = NoSelection
    /\ files_start = 0
    /\ files = <<>>
    /\ idx = 0
    /\ rounds = 0
    /\ sel_before = {}
    /\ sel_ok = {}
    /\ pause_sent = "unset"
    /\ issued = <<>>
    /\ reports = 0
    /\ artifacts = <<>>
    /\ video = {1}
    /\ output = {FileName(1, "fre")}
    /\ staged = {}
    /\ p_i = 0
    /\ lang_i = 0
    /\ sub_i = 0
    /\ extracted = <<>>
    /\ tried = <<>>
    /\ runs = 0
    /\ returned = "none"
    /\ proc_calls = 0
    /\ probe_i = 0
    /\ probe_slept = TRUE
    /\ started = "none"
    /\ in_select = FALSE
    /\ asked = FALSE
    /\ selected = NoSelection
    /\ tmp_gid = 0
    /\ removes = 0

NextMain ==
    \/ StartStep
    \/ MainStep
    \/ SelectStep
    \/ NextItem

SpecMain == InitMain /\ [][NextMain]_vars

(* ================================ claims =============================== *)

\* C1: one run of monitor_download produces at most one terminal outcome (Completed,
\* Failed or TimedOut): once an outcome is produced the monitor has returned, and from
\* then on the outcome and the returned list never change, no further status query is
\* issued and no call is made, whatever the engine does.
C1_OneTerminalOutcome ==
    /\ [](outcome # "none" <=> pc = "mon_done")
    /\ [][outcome # "none" =>
            /\ outcome' = outcome
            /\ downloaded' = downloaded
            /\ queries' = queries
            /\ call' = call
            /\ pc' = "mon_done"]_vars

\* A session that ended after several polls, one of them failed, while the engine's job
\* is in a terminal status.
C1_Witness ==
    /\ outcome # "none"
    /\ queries >= 2
    /\ polls_failed
    /\ remote \in Terminal

\* C2: when the monitor returns later than `timeout` after the session started, it
\* returns TimedOut with an empty list.
C2_HardCeiling ==
    (pc = "mon_done" /\ now - start_time > timeout) =>
        (outcome = "TimedOut" /\ downloaded = <<>>)

\* C3: a poll that reads `complete` ends the session as Completed, and the list returned
\* by a Completed session holds exactly the reported paths that exist on disk, each once,
\* in the reported order.
C3_CompletedArtifacts ==
    /\ [](outcome = "Completed" =>
            /\ status.status = "complete"
            /\ \A k \in 1..Len(downloaded) :
                  /\ downloaded[k] # 0
                  /\ downloaded[k] \in disk
                  /\ \E i \in 1..Len(status.files) : status.files[i] = downloaded[k]
            /\ \A i \in 1..Len(status.files) :
                  (status.files[i] # 0 /\ status.files[i] \in disk) =>
                      Cardinality({k \in 1..Len(downloaded) : downloaded[k] = status.files[i]}) = 1
            /\ \A k1, k2 \in 1..Len(downloaded) :
                  k1 < k2 => downloaded[k1] < downloaded[k2])
    /\ [][(/\ pc = "mon_query"
            /\ pc' # pc
            /\ call.result.kind = "result"
            /\ call.result.status = "complete") =>
               (outcome' = "Completed" /\ pc' = "mon_done")]_vars

\* A Completed session whose engine reported a file that is on disk and one that is not.
C3_Witness ==
    /\ outcome = "Completed"
    /\ \E i, j \in 1..Len(status.files) :
          /\ status.files[i] # 0
          /\ status.files[i] \in disk
          /\ status.files[j] # 0
          /\ status.files[j] \notin disk
    /\ Len(downloaded) = 1

\* C4: the poll that reads `error` or `removed` ends the session as Failed with an empty
\* list in that same step, without sleeping; and a session ends Failed only so.
C4_FailedOnErrorOrRemoved ==
    /\ [][(/\ pc = "mon_query"
            /\ pc' # pc
            /\ call.result.kind = "result"
            /\ call.result.status \in {"error", "removed"}) =>
               (/\ outcome' = "Failed"
                /\ downloaded' = <<>>
                /\ pc' = "mon_done"
                /\ now' = now)]_vars
    /\ [](outcome = "Failed" =>
            (status.status \in {"error", "removed"} /\ downloaded = <<>>))

\* A session that failed on its very first poll, on a removed job.
C4_Witness ==
    /\ outcome = "Failed"
    /\ queries = 1
    /\ status.status = "removed"

\* C5: a status query that returns no result leaves the session running: the monitor
\* sleeps one tick and is back at the head of its loop, where, the timeout not reached,
\* the next step of the monitor issues the query again.
C5_QueryFailureNotTerminal ==
    /\ [][(/\ pc = "mon_query"
            /\ pc' # pc
            /\ call.result.kind # "result") =>
               (/\ outcome' = "none"
                /\ pc' = "mon_loop"
                /\ now' = now + PollSleep)]_vars
    /\ [][(/\ pc = "mon_loop"
            /\ pc' # pc
            /\ now - start_time < timeout) =>
               (/\ pc' = "mon_query"
                /\ queries' = queries + 1
                /\ call'.st = "try"
                /\ call'.method = "tellStatus")]_vars

\* A session that completed after one of its status queries had failed.
C5_Witness ==
    /\ outcome = "Completed"
    /\ polls_failed
    /\ now - start_time < timeout

\* C6: a call of which some attempt was answered returns the answer of the first such
\* attempt, has made no more than Retries attempts, and makes no attempt after it.
C6_FirstSuccessReturned ==
    /\ [](call.served # None =>
            /\ call.st = "done"
            /\ call.result = call.served
            /\ call.made <= Retries
            /\ call.made = call.attempt + 1)
    /\ [][(call.served # None /\ call'.served # None) => call'.made = call.made]_vars

\* A call that failed twice and was answered on its third attempt.
C6_Witness ==
    /\ call.st = "done"
    /\ call.made = 3
    /\ call.slept = 2
    /\ call.result.kind = "result"

\* C7: a call none of whose attempts was answered returns None after exactly Retries
\* attempts and Retries - 1 backoff sleeps: one sleep after every attempt but the last.
C7_AllAttemptsFail ==
    /\ (call.st = "done" /\ call.served = None) =>
            /\ call.result = None
            /\ call.made = Retries
            /\ call.slept = Retries - 1
    /\ call.st = "try" => call.slept = call.made
    /\ call.st = "backoff" => call.slept = call.made - 1

\* A call that returned None.
C7_Witness ==
    /\ call.st = "done"
    /\ call.served = None
    /\ call.result = None
    /\ call.made = Retries

\* C8 (as the code has it): when apply_file_selection has returned, the engine's selection
\* lies within [0,N); every index whose select-file call succeeded is selected iff it is
\* in S, and every index is either as S says or as it was before, so that exactly
\* S \cap [0,N) is selected when all N calls succeeded; when the file list was not
\* obtained no index was touched; and applying S to a job whose selection already is
\* S \cap [0,N) leaves it unchanged.
C8_SelectionApplied ==
    LET InRange == 0..(Len(jobFiles) - 1)
        S == selected_files.items
    IN (pc = "add_done" /\ rounds >= 1) =>
          /\ sel \subseteq InRange
          /\ files = <<>> => (sel = sel_before /\ sel_ok = {})
          /\ files # <<>> =>
                /\ Len(files) = Len(jobFiles)
                /\ \A i \in InRange :
                      /\ i \in sel_ok => (i \in sel <=> i \in S)
                      /\ (i \in sel <=> i \in S) \/ (i \in sel <=> i \in sel_before)
          /\ sel_ok = InRange => sel = S \cap InRange
          /\ sel_before = S \cap InRange => sel = sel_before

\* The selection {0, 2} applied a second time to a job of two files, every call answered:
\* index 0 alone is selected, as after the first application.
C8_Witness ==
    /\ pc = "add_done"
    /\ rounds = 2
    /\ Len(jobFiles) = 2
    /\ selected_files.items = {0, 2}
    /\ sel_ok = {0, 1}
    /\ sel_before = {0}
    /\ sel = {0}

\* C8 as claimed: whenever apply_file_selection has returned, exactly the indices of
\* S \cap [0,N) are selected.
C8_ExactSelection ==
    (pc = "add_done" /\ rounds >= 1) =>
        sel = selected_files.items \cap (0..(Len(jobFiles) - 1))

\* C9: once add_torrent_file has returned the handle of a job it submitted paused, the
\* job is not paused in the engine.
C9_NeverLeftPaused ==
    (pc = "add_done" /\ pause_sent = "true" /\ gid # 0) => remote # "paused"

\* C10: the addTorrent call carries pause=true iff the selection is a non-empty list;
\* with an empty or absent selection the job is not submitted paused, and
\* apply_file_selection is never entered nor is any of its calls made.
C10_PauseIffSelection ==
    LET nonempty == selected_files.given /\ selected_files.items # {}
    IN /\ pause_sent # "unset" => (pause_sent = "true" <=> nonempty)
       /\ call.method = "addTorrent" => (call.arg.pause = "true" <=> nonempty)
       /\ remote = "paused" => nonempty
       /\ ~nonempty =>
             /\ rounds = 0
             /\ pc \in {"add", "add_call", "add_done"}
             /\ call.method \in {"", "addTorrent"}

\* add_torrent_file returned the handle of a job submitted unpaused for an empty list.
C10_Witness ==
    /\ pc = "add_done"
    /\ selected_files.given
    /\ selected_files.items = {}
    /\ gid # 0
    /\ pause_sent = "false"
    /\ remote = "active"

\* C15: an execution of apply_file_selection that has returned issued exactly one unpause
\* call, as its last call: after one select-file call for each index 0..N-1 in order when
\* the file list was obtained, and with no select-file call when it was not; and no
\* execution issues a select-file call after its unpause call.
C15_UnpauseOnceAndLast ==
    /\ (pc = "add_done" /\ rounds >= 1) =>
          /\ Len(issued) >= 1
          /\ issued[Len(issued)] = -1
          /\ \A k \in 1..(Len(issued) - 1) : issued[k] = k - 1
          /\ Len(issued) = Len(files) + 1
          /\ files # <<>> => Len(files) = Len(jobFiles)
    /\ \A k \in 1..Len(issued) : issued[k] = -1 => k = Len(issued)

\* An execution on a job of two files that issued select-file for 0 and 1, then unpause.
C15_Witness ==
    /\ pc = "add_done"
    /\ rounds = 1
    /\ issued = <<0, 1, -1>>

\* C16: monitor_download returns, whatever statuses the engine reports: every iteration
\* of the loop takes at least the poll sleep, so the k-th status query is issued no
\* earlier than (k-1) poll sleeps after the start and before the timeout, and the monitor
\* eventually reaches its return.
C16_Terminates ==
    /\ [](queries >= 1 => (queries - 1) * PollSleep < timeout)
    /\ [](pc # "mon_done" => now - start_time < timeout + Retries * (MaxWait + BackoffSleep) + PollSleep)
    /\ <>(pc = "mon_done")

\* A session that timed out on a job that was still running and reporting progress.
C16_Witness ==
    /\ outcome = "TimedOut"
    /\ remote = "active"
    /\ reports >= 1
    /\ ~polls_failed

\* C19: every progress report comes at least ProgressEvery seconds after the previous
\* one (and after the start of the session), however many polls lie between them.
C19_ReportsSpaced ==
    [][(pc # "monitor" /\ (last_update' # last_update \/ reports' # reports)) =>
          /\ reports' = reports + 1
          /\ last_update' = now
          /\ last_update' - last_update >= ProgressEvery]_vars

\* A session that printed two progress reports.
C19_Witness ==
    /\ reports = 2
    /\ queries >= 3
\* C13: a second run of process_downloaded_files on the same list of files never raises,
\* whether the first run returned or was interrupted part-way.
C13_RerunNeverRaises == runs = 2 => pc # "proc_raised"

\* C14: extract_subtitles runs ffmpeg for the languages fre, fra, fr, french in that
\* order and then, at most, for the fallback; it returns at most one file; and a file
\* it returns carries the selector of the last extraction it ran, so that no later
\* language and no fallback is attempted after the extraction that succeeded with a file
\* of more than 100 bytes.
C14_LanguageOrder ==
    /\ Len(tried) <= Len(Languages) + 1
    /\ \A k \in 1..Len(tried) :
          tried[k] = IF k <= Len(Languages) THEN Languages[k] ELSE ""
    /\ Len(extracted) <= 1
    /\ extracted # <<>> =>
          /\ tried # <<>>
          /\ extracted[1].tag = tried[Len(tried)]
          /\ pc = "move_subs" => extracted[1].path = FilePath
    /\ (pc = "move_subs" /\ extracted = <<>>) => Len(tried) = Len(Languages) + 1

C14_Witness ==
    /\ pc = "move_subs"
    /\ tried = <<"fre", "fra", "fr">>
    /\ extracted = <<FileName(FilePath, "fr")>>
    /\ FileName(FilePath, "fra") \in staged

\* C11: when download_item has returned after a session that ended Completed,
\* process_downloaded_files was called exactly once, the list of downloaded files being
\* empty or not; after any other end it was not called.
C11_ProcessedOncePerCompleted ==
    pc = "item_done" =>
        proc_calls = IF outcome = "Completed" THEN 1 ELSE 0

\* The paths of the job's files with an index in I, in the job's order.
PathsOf(I) ==
    LET f[k \in 0..Len(jobFiles)] ==
            IF k = 0 THEN <<>>
            ELSE IF (k - 1) \in I THEN Append(f[k - 1], jobFiles[k]) ELSE f[k - 1]
    IN f[Len(jobFiles)]

C20_ReturnsStatus ==
    /\ pc # "item_raised"
    /\ returned \in {"none", "True", "False"}
    /\ (pc = "item_done") = (returned # "none")
    /\ returned = "True" =>
          /\ gid # 0
          /\ outcome = "Completed"
          /\ downloaded # <<>>
          /\ proc_calls = 1
          /\ p_i = Len(artifacts) + 1
    /\ pc = "item_done" =>
          /\ (item \notin {"torrent", "magnet"} \/ gid = 0) => returned = "False"
          /\ outcome \in {"Failed", "TimedOut"} => returned = "False"
          /\ (proc_calls = 1 /\ p_i <= Len(artifacts)) => returned = "False"
    /\ gid = 0 =>
          /\ queries = 0
          /\ outcome = "none"
          /\ call.st # "idle" => call.method \in {"addTorrent", "addUri"}

C20_Witness ==
    /\ pc = "item_done"
    /\ returned = "False"
    /\ proc_calls = 1
    /\ p_i <= Len(artifacts)

\* C17: in the probe loop of start_aria2_rpc a sleep occurs between every two
\* consecutive probes, whatever the earlier probe's outcome.
C17_SleepBetweenProbes ==
    (pc = "probe" /\ probe_i >= 1 /\ probe_i < ProbeAttempts) => probe_slept

\* C18: no call is made to the engine, and so no job is submitted by addUri or
\* addTorrent and no job exists, unless start_aria2_rpc has returned True; and
\* start_aria2_rpc makes at most ProbeAttempts probes, reporting failure only after the
\* last of them (or when the engine process could not be started at all).
C18_NoJobBeforeReady ==
    /\ probe_i <= ProbeAttempts
    /\ started = "False" => probe_i \in {0, ProbeAttempts}
    /\ (call.st # "idle" /\ call.method \in {"addUri", "addTorrent"}) => started = "True"
    /\ started # "True" =>
          /\ call = NoCall
          /\ remote = "none"
          /\ gid = 0
          /\ pc \in {"start", "probe", "main_started", "main_exit"}

C18_Witness ==
    /\ started = "True"
    /\ call.st = "try"
    /\ call.method = "addTorrent"
    /\ in_select

\* C21: once get_torrent_selection has returned after it got a handle for its temporary
\* job, an aria2.remove call has been issued for that handle, whatever it returns (a
\* selection, or the empty list because the file list did not populate).
C21_TemporaryJobRemoved ==
    (~in_select /\ selected # NoSelection /\ tmp_gid # 0) => removes >= 1

=============================================================================
